---- MODULE Spec2Model ----
(***************************************************************************)
(* Model of the daily fortune bot (src/main.py): field extraction and      *)
(* validation of list items, the text generation client, the chat client   *)
(* and the batch driver.                                                   *)
(*                                                                         *)
(* Python strings that the code strips, matches or tests for a prefix are  *)
(* sequences of one-character strings, so that strip(), startswith() and   *)
(* the date pattern are computed.  Identifiers that are only compared      *)
(* (column ids, field keys, method names) are plain strings.  A JSON value *)
(* is a tagged record: None, Str(s), Bool(b) or List(l).                   *)
(***************************************************************************)
EXTENDS Integers, Sequences, FiniteSets, TLC

VARIABLES
    cfg,        \* the configuration of the run (load_config)
    item,       \* SpecExtract: the list item under test
    vres,       \* SpecExtract: validate_item's result
    bres,       \* SpecExtract: build_rec_from_item's result
    epc,        \* SpecExtract: position
    gpc,        \* gemini_generate_text: position (idle, call1, call2, returned, raised)
    gcalls,     \* gemini_generate_text: the prompts posted to the endpoint, in order
    data1,      \* gemini_generate_text: the first response
    text1,      \* gemini_generate_text: text of the first response
    finish1,    \* gemini_generate_text: stop reason of the first response
    data2,      \* gemini_generate_text: the continuation's response
    gres,       \* gemini_generate_text: what the call returned or raised
    prompt,     \* the prompt handed to gemini_generate_text
    store,      \* the list items the platform holds
    audit,      \* AUDIT_ONLY is "true"
    pc,         \* run(): position
    cursor,     \* fetch_all_list_items: the cursor (0 is the empty string)
    fetchlog,   \* observation: the pages requested by the fetch (cursor sent, answer)
    items,      \* fetch_all_list_items / run(): the items fetched
    idx,        \* run(): index in items of the item of the current iteration
    sent_signatures, \* run(): signatures recorded as sent
    rec,        \* run(): r, the recipient record
    out_text,   \* run(): the generated text
    didx,       \* run(): index in r["dm_targets"] of the current uid
    dm_channel, \* run(): the channel conversations.open returned
    err,        \* run(): the exception caught by the per-item handler
    nidx,       \* notify_admins_of_error: index in admin_ids of the current uid
    nch,        \* notify_admins_of_error: the channel conversations.open returned
    calls,      \* observation: what was called for the item of the current iteration
    report,     \* audit_list: the printed report
    printed,    \* run(): the OK / SKIP / ERROR line printed for each item
    tool,       \* deletion utility: TRUE for tools/, FALSE for the workflow's
    dry_raw,    \* deletion utility: the value of DRY_RUN in the environment
    dry_run,    \* main(): dry_run
    max_delete, \* main(): max_delete
    chan,       \* the messages the channel holds, each with its thread
    dpc,        \* main(): position
    bot_id,     \* main(): bot_id of the auth.test answer
    hist_cursor, \* main(): cursor (0 is the empty string)
    msgs,       \* main(): the page of messages being scanned
    mi,         \* main(): index in msgs of m
    rep_cursor, \* main(): rep_cursor
    replies,    \* main(): the page of replies being scanned
    ri,         \* main(): index in replies of r
    deleted,    \* main(): deleted
    scanned,    \* main(): scanned
    dlog,       \* observation: delete calls, dry-run lines and threads opened
    tries,      \* slack_api of the utility: rate-limited tries of the current call
    derr        \* main(): the error that ended the run

extractVars == <<item, vres, bres, epc>>
genVars == <<gpc, gcalls, data1, text1, finish1, data2, gres>>
runVars == <<store, audit, pc, cursor, fetchlog, items, idx, sent_signatures, rec, out_text,
             didx, dm_channel, err, nidx, nch, calls, report, printed>>
delVars == <<tool, dry_raw, dry_run, max_delete, chan, dpc, bot_id, hist_cursor, msgs, mi,
             rep_cursor, replies, ri, deleted, scanned, dlog, tries, derr>>
vars == <<cfg, extractVars, genVars, prompt, runVars, delVars>>

-----------------------------------------------------------------------------
(* JSON values *)

None == [t |-> "none"]
Str(s) == [t |-> "str", s |-> s]
Bool(b) == [t |-> "bool", b |-> b]
List(l) == [t |-> "list", l |-> l]

IsStr(v) == v.t = "str"
IsBool(v) == v.t = "bool"
IsList(v) == v.t = "list"

-----------------------------------------------------------------------------
(* Python string operations on character sequences *)

Whitespace == {" ", "\n", "\t"}
Digits == {"0", "1", "2", "3", "4", "5", "6", "7", "8", "9"}

RECURSIVE LStrip(_)
LStrip(s) ==
    IF s = <<>> THEN <<>>
    ELSE IF Head(s) \in Whitespace THEN LStrip(Tail(s)) ELSE s

RECURSIVE RStrip(_)
RStrip(s) ==
    IF s = <<>> THEN <<>>
    ELSE IF s[Len(s)] \in Whitespace THEN RStrip(SubSeq(s, 1, Len(s) - 1)) ELSE s

Strip(s) == RStrip(LStrip(s))

StartsWith(s, p) == Len(s) >= Len(p) /\ SubSeq(s, 1, Len(p)) = p

\* DATE_RE = ^\d{4}-\d{2}-\d{2}$ ; "$" also matches before one trailing newline
DateCore(s) ==
    /\ Len(s) = 10
    /\ \A i \in {1, 2, 3, 4, 6, 7, 9, 10} : s[i] \in Digits
    /\ s[5] = "-"
    /\ s[8] = "-"

DATE_RE(s) ==
    \/ DateCore(s)
    \/ Len(s) = 11 /\ s[11] = "\n" /\ DateCore(SubSeq(s, 1, 10))

\* variant of Uniq that keeps the duplicates
Uniq_keepdups(xs) == xs

\* list(dict.fromkeys(xs)): duplicates removed, first occurrence kept
RECURSIVE Uniq(_)
Uniq(xs) ==
    IF xs = <<>> THEN <<>>
    ELSE LET init == Uniq(SubSeq(xs, 1, Len(xs) - 1))
             last == xs[Len(xs)]
         IN  IF \E i \in 1..Len(init) : init[i] = last THEN init
             ELSE Append(init, last)

\* dict.get(k): the value, or "None" when the key is absent
DictGet(d, k) == IF k \in DOMAIN d THEN d[k] ELSE "None"

-----------------------------------------------------------------------------
(* Configuration *)

OptM == <<"O", "p", "t", "M">>
OptF == <<"O", "p", "t", "F">>
OptX == <<"O", "p", "t", "X">>
OptT(code) == <<"O", "p", "t", "T">> \o code

DEFAULT_COLS ==
    [gender_col |-> "ColG", time_col |-> "ColT", birthday_col |-> "ColB",
     private_col |-> "ColP", assignee_col |-> "ColA"]

DEFAULT_GENDER_OPT_TO_MF == (OptM :> "m") @@ (OptF :> "f")

DEFAULT_TIME_OPT_TO_CODE ==
    (OptT(<<"0">>) :> "0") @@ (OptT(<<"1">>) :> "1") @@ (OptT(<<"2">>) :> "2") @@
    (OptT(<<"3">>) :> "3") @@ (OptT(<<"4">>) :> "4") @@ (OptT(<<"5">>) :> "5") @@
    (OptT(<<"6">>) :> "6") @@ (OptT(<<"7">>) :> "7") @@ (OptT(<<"8">>) :> "8") @@
    (OptT(<<"9">>) :> "9") @@ (OptT(<<"1", "0">>) :> "10") @@
    (OptT(<<"1", "1">>) :> "11") @@ (OptT(<<"1", "2">>) :> "12")

U1 == <<"U", "1">>
U2 == <<"U", "2">>
U3 == <<"U", "3">>

\* the values parse_admin_ids can yield for ADMIN_USER_IDS
AdminChoices == {<<>>, <<U3>>, <<U1, U3>>}

load_config(admins) ==
    [channel_id |-> <<"C", "0">>,
     admin_user_ids |-> admins,
     cols |-> DEFAULT_COLS,
     gender_opt_to_mf |-> DEFAULT_GENDER_OPT_TO_MF,
     time_opt_to_code |-> DEFAULT_TIME_OPT_TO_CODE]

-----------------------------------------------------------------------------
(* List items: an id and a sequence of fields *)

Field(col, key) ==
    [column_id |-> col, key |-> key, text |-> None, value |-> None,
     date |-> None, select |-> None, checkbox |-> None, user |-> None]

\* f.get("text") or "" , stripped
FieldText(f) == IF IsStr(f.text) THEN Strip(f.text.s) ELSE <<>>

RECURSIVE field_by_column(_, _)
field_by_column(fields, col_id) ==
    IF fields = <<>> THEN None
    ELSE IF Head(fields).column_id = col_id THEN [t |-> "field", f |-> Head(fields)]
    ELSE field_by_column(Tail(fields), col_id)

NO_NAME == <<"(", "?", ")">>

RECURSIVE FirstNamed(_)
FirstNamed(fields) ==
    IF fields = <<>> THEN <<>>
    ELSE IF Head(fields).key = "name" /\ FieldText(Head(fields)) # <<>>
         THEN FieldText(Head(fields))
    ELSE FirstNamed(Tail(fields))

RECURSIVE FirstText(_)
FirstText(fields) ==
    IF fields = <<>> THEN <<>>
    ELSE IF FieldText(Head(fields)) # <<>> THEN FieldText(Head(fields))
    ELSE FirstText(Tail(fields))

extract_name(it) ==
    IF FirstNamed(it.fields) # <<>> THEN FirstNamed(it.fields)
    ELSE IF FirstText(it.fields) # <<>> THEN FirstText(it.fields)
    ELSE NO_NAME

\* a stripped string, or None
extract_birthday(it, birthday_col) ==
    LET g == field_by_column(it.fields, birthday_col) IN
    IF g = None THEN None
    ELSE IF IsStr(g.f.value) /\ Strip(g.f.value.s) # <<>> THEN Str(Strip(g.f.value.s))
    ELSE IF IsList(g.f.date) /\ g.f.date.l # <<>> /\ IsStr(g.f.date.l[1])
         THEN Str(Strip(g.f.date.l[1].s))
    ELSE None

extract_select_option(it, col_id) ==
    LET g == field_by_column(it.fields, col_id) IN
    IF g = None THEN None
    ELSE IF IsList(g.f.select) /\ Len(g.f.select.l) > 0 THEN g.f.select.l[1]
    ELSE IF IsStr(g.f.value) /\ StartsWith(Strip(g.f.value.s), <<"O", "p", "t">>)
         THEN Str(Strip(g.f.value.s))
    ELSE None

extract_checkbox(it, col_id) ==
    LET g == field_by_column(it.fields, col_id) IN
    IF g = None THEN None
    ELSE IF IsBool(g.f.value) THEN g.f.value
    ELSE IF IsBool(g.f.checkbox) THEN g.f.checkbox
    ELSE None

RECURSIVE NonBlank(_)
NonBlank(l) ==
    IF l = <<>> THEN <<>>
    ELSE IF Strip(Head(l).s) # <<>> THEN <<Head(l).s>> \o NonBlank(Tail(l))
    ELSE NonBlank(Tail(l))

extract_user_ids(it, col_id) ==
    LET g == field_by_column(it.fields, col_id) IN
    IF g = None THEN <<>>
    ELSE IF IsList(g.f.user) THEN NonBlank(g.f.user.l)
    ELSE IF IsStr(g.f.value) /\ StartsWith(g.f.value.s, <<"U">>) THEN <<g.f.value.s>>
    ELSE <<>>

\* Python truthiness of an Optional[str]: "not v"
Falsy(v) == v = None \/ (IsStr(v) /\ v.s = <<>>)

-----------------------------------------------------------------------------
(* validate_item: (ok, errs); errs holds the kind of each message *)

ValidateErrs(c, it) ==
    LET cols == c.cols
        name == extract_name(it)
        b == extract_birthday(it, cols.birthday_col)
        gopt == extract_select_option(it, cols.gender_col)
        topt == extract_select_option(it, cols.time_col)
        priv == extract_checkbox(it, cols.private_col)
        assignees == extract_user_ids(it, cols.assignee_col)
        is_private == IF priv # None THEN priv.b ELSE FALSE
        dm_targets == Uniq(assignees \o c.admin_user_ids)
    IN  (IF name = <<>> \/ name = NO_NAME THEN <<"name:">> ELSE <<>>)
     \o (IF Falsy(b) \/ ~DATE_RE(b.s) THEN <<"birthday:">> ELSE <<>>)
     \o (IF Falsy(gopt) THEN <<"gender: missing">>
         ELSE IF DictGet(c.gender_opt_to_mf, gopt.s) \notin {"m", "f"}
              THEN <<"gender: unknown">> ELSE <<>>)
     \o (IF Falsy(topt) THEN <<"time: missing">>
         ELSE IF DictGet(c.time_opt_to_code, topt.s) = "None"
              THEN <<"time: unknown">> ELSE <<>>)
     \o (IF priv = None THEN <<"private:">> ELSE <<>>)
     \o (IF is_private /\ dm_targets = <<>> THEN <<"dm_targets:">> ELSE <<>>)

validate_item(c, it) ==
    LET errs == ValidateErrs(c, it) IN
    [ok |-> \A i \in 1..Len(errs) : errs[i] = "private:", errs |-> errs]

-----------------------------------------------------------------------------
(* build_rec_from_item: a record, or the RuntimeError it raises *)

Raise(fn, msg) == [raised |-> TRUE, error |-> [fn |-> fn, msg |-> msg]]
Return(v) == [raised |-> FALSE, value |-> v]

build_rec_from_item(c, it) ==
    LET cols == c.cols
        name == extract_name(it)
        birthday == extract_birthday(it, cols.birthday_col)
        gender_opt == extract_select_option(it, cols.gender_col)
        gender == DictGet(c.gender_opt_to_mf, gender_opt.s)
        time_opt == extract_select_option(it, cols.time_col)
        time_code == DictGet(c.time_opt_to_code, time_opt.s)
        is_private == extract_checkbox(it, cols.private_col)
        assignees == extract_user_ids(it, cols.assignee_col)
        dm_targets == Uniq(assignees \o c.admin_user_ids)
    IN  IF Falsy(birthday) THEN Raise("build_rec_from_item", "birthday missing")
        ELSE IF Falsy(gender_opt) THEN Raise("build_rec_from_item", "gender select missing")
        ELSE IF gender \notin {"m", "f"} THEN Raise("build_rec_from_item", "unknown gender option")
        ELSE IF Falsy(time_opt) THEN Raise("build_rec_from_item", "time select missing")
        ELSE IF time_code = "None" THEN Raise("build_rec_from_item", "unknown time option")
        ELSE Return([item_id |-> it.id,
                     name |-> name,
                     birthday |-> birthday.s,
                     gender |-> gender,
                     time_code |-> time_code,
                     is_private |-> IF is_private = None THEN FALSE ELSE is_private.b,
                     dm_targets |-> dm_targets])

-----------------------------------------------------------------------------
(* gemini_generate_text *)

UpperChar(c) ==
    CASE c = "a" -> "A" [] c = "b" -> "B" [] c = "c" -> "C" [] c = "d" -> "D"
      [] c = "e" -> "E" [] c = "f" -> "F" [] c = "g" -> "G" [] c = "h" -> "H"
      [] c = "i" -> "I" [] c = "j" -> "J" [] c = "k" -> "K" [] c = "l" -> "L"
      [] c = "m" -> "M" [] c = "n" -> "N" [] c = "o" -> "O" [] c = "p" -> "P"
      [] c = "q" -> "Q" [] c = "r" -> "R" [] c = "s" -> "S" [] c = "t" -> "T"
      [] c = "u" -> "U" [] c = "v" -> "V" [] c = "w" -> "W" [] c = "x" -> "X"
      [] c = "y" -> "Y" [] c = "z" -> "Z" [] OTHER -> c

Upper(s) == [i \in 1..Len(s) |-> UpperChar(s[i])]

MAX_TOKENS == <<"M", "A", "X", "_", "T", "O", "K", "E", "N", "S">>

\* the texts of the parts that carry a non-blank string, stripped
RECURSIVE PartTexts(_)
PartTexts(parts) ==
    IF parts = <<>> THEN <<>>
    ELSE IF IsStr(Head(parts)) /\ Strip(Head(parts).s) # <<>>
         THEN <<Strip(Head(parts).s)>> \o PartTexts(Tail(parts))
    ELSE PartTexts(Tail(parts))

\* "\n".join(texts)
RECURSIVE JoinLines(_)
JoinLines(texts) ==
    IF texts = <<>> THEN <<>>
    ELSE IF Len(texts) = 1 THEN texts[1]
    ELSE texts[1] \o <<"\n">> \o JoinLines(Tail(texts))

\* call(): the response body, or the error of a status >= 400
call(resp) ==
    IF resp.status >= 400 THEN Raise("gemini_generate_text", "Gemini HTTP") ELSE Return(resp)

\* extract_text(data): (text, finish), or the error when there is no candidate
extract_text(data) ==
    IF data.candidates = <<>> THEN Raise("gemini_generate_text", "Gemini returned no candidates")
    ELSE LET cand0 == data.candidates[1] IN
         Return([text |-> Strip(JoinLines(PartTexts(cand0.parts))),
                 finish |-> cand0.finishReason])

\* variant of Truncated that never sees a truncation
TruncatedNever(finish) == FALSE

Truncated(finish) == Upper(finish) = MAX_TOKENS

Concat(t1, t2) == Strip(RStrip(t1) \o <<"\n">> \o LStrip(t2))

GenFirstCall(resp) ==
    /\ gpc = "call1"
    /\ gcalls' = Append(gcalls, [kind |-> "prompt", text |-> prompt])
    /\ LET c == call(resp)
           x == extract_text(c.value)
       IN  IF c.raised
           THEN /\ gres' = c
                /\ gpc' = "raised"
                /\ UNCHANGED <<data1, text1, finish1>>
           ELSE /\ data1' = c.value
                /\ IF x.raised
                   THEN /\ gres' = x
                        /\ gpc' = "raised"
                        /\ UNCHANGED <<text1, finish1>>
                   ELSE /\ text1' = x.value.text
                        /\ finish1' = x.value.finish
                        /\ IF x.value.text = <<>>
                           THEN /\ gres' = Raise("gemini_generate_text", "Gemini returned empty text (first call)")
                                /\ gpc' = "raised"
                           ELSE IF Truncated(x.value.finish)
                           THEN /\ gpc' = "call2"
                                /\ UNCHANGED gres
                           ELSE /\ gres' = Return(x.value.text)
                                /\ gpc' = "returned"
    /\ UNCHANGED data2

GenContinue(resp) ==
    /\ gpc = "call2"
    /\ gcalls' = Append(gcalls, [kind |-> "continue", text |-> text1])
    /\ LET c == call(resp)
           x == extract_text(c.value)
       IN  IF c.raised
           THEN /\ gres' = c
                /\ gpc' = "raised"
                /\ UNCHANGED data2
           ELSE /\ data2' = c.value
                /\ IF x.raised
                   THEN /\ gres' = x
                        /\ gpc' = "raised"
                   ELSE /\ gres' = IF x.value.text # <<>>
                                   THEN Return(Concat(text1, x.value.text))
                                   ELSE Return(text1)
                        /\ gpc' = "returned"
    /\ UNCHANGED <<data1, text1, finish1>>

-----------------------------------------------------------------------------
(* The items and configurations the extraction is checked on: every        *)
(* combination of the shapes below, at most one field per column.          *)

S_date == <<"1", "9", "9", "0", "-", "0", "5", "-", "1", "4">>
S_slash == <<"1", "9", "9", "0", "/", "0", "5", "/", "1", "4">>
S_kim == <<"K", "i", "m">>

NameFields ==
    {<<>>,
     <<[Field("ColN", "name") EXCEPT !.text = Str(S_kim)]>>,
     <<[Field("ColN", "name") EXCEPT !.text = Str(<<" ", " ">>)]>>}

BirthdayFields ==
    {<<>>,
     <<[Field("ColB", "date") EXCEPT !.value = Str(S_date)]>>,
     <<[Field("ColB", "date") EXCEPT !.value = Str(<<" ">> \o S_date \o <<"\n">>)]>>,
     <<[Field("ColB", "date") EXCEPT !.value = Str(S_slash), !.text = Str(S_slash)]>>,
     <<[Field("ColB", "date") EXCEPT !.date = List(<<Str(S_date)>>)]>>,
     <<[Field("ColB", "date") EXCEPT !.value = Str(<<" ">>), !.date = List(<<Str(<<" ">>)>>)]>>,
     <<[Field("ColB", "date") EXCEPT !.date = List(<<>>)]>>}

GenderFields ==
    {<<>>,
     <<[Field("ColG", "gender") EXCEPT !.select = List(<<Str(OptM)>>)]>>,
     <<[Field("ColG", "gender") EXCEPT !.select = List(<<Str(OptX)>>)]>>,
     <<[Field("ColG", "gender") EXCEPT !.select = List(<<>>), !.value = Str(OptF)]>>,
     <<[Field("ColG", "gender") EXCEPT !.select = List(<<Str(<<>>)>>)]>>}

TimeFields ==
    {<<>>,
     <<[Field("ColT", "time") EXCEPT !.select = List(<<Str(OptT(<<"3">>))>>)]>>,
     <<[Field("ColT", "time") EXCEPT !.select = List(<<Str(OptX)>>)]>>,
     <<[Field("ColT", "time") EXCEPT !.value = Str(<<" ">> \o OptT(<<"1", "2">>))]>>}

PrivateFields ==
    {<<>>,
     <<[Field("ColP", "private") EXCEPT !.value = Bool(TRUE)]>>,
     <<[Field("ColP", "private") EXCEPT !.value = Bool(FALSE)]>>,
     <<[Field("ColP", "private") EXCEPT !.checkbox = Bool(TRUE)]>>}

AssigneeFields ==
    {<<>>,
     <<[Field("ColA", "assignee") EXCEPT !.user = List(<<Str(U1), Str(U2)>>)]>>,
     <<[Field("ColA", "assignee") EXCEPT !.user = List(<<Str(U1), Str(<<" ">>), Str(U1)>>)]>>,
     <<[Field("ColA", "assignee") EXCEPT !.user = List(<<>>)]>>,
     <<[Field("ColA", "assignee") EXCEPT !.value = Str(U2)]>>}

ItemSpace ==
    {[id |-> "I1", fields |-> n \o b \o g \o t \o p \o a] :
        n \in NameFields, b \in BirthdayFields, g \in GenderFields,
        t \in TimeFields, p \in PrivateFields, a \in AssigneeFields}

-----------------------------------------------------------------------------
(* SpecExtract: the validator and the extractor applied to one item *)

Idle == [t |-> "idle"]

GenIdle ==
    /\ gpc = "idle"
    /\ gcalls = <<>>
    /\ data1 = Idle
    /\ text1 = <<>>
    /\ finish1 = <<>>
    /\ data2 = Idle
    /\ gres = Idle

RunIdle ==
    /\ store = <<>>
    /\ audit = FALSE
    /\ pc = "idle"
    /\ cursor = 0
    /\ fetchlog = <<>>
    /\ items = <<>>
    /\ idx = 0
    /\ sent_signatures = {}
    /\ rec = Idle
    /\ out_text = <<>>
    /\ didx = 0
    /\ dm_channel = <<>>
    /\ err = Idle
    /\ nidx = 0
    /\ nch = <<>>
    /\ calls = <<>>
    /\ report = Idle
    /\ printed = <<>>

DelIdle ==
    /\ tool = FALSE
    /\ dry_raw = None
    /\ dry_run = TRUE
    /\ max_delete = 0
    /\ chan = <<>>
    /\ dpc = "idle"
    /\ bot_id = "None"
    /\ hist_cursor = 0
    /\ msgs = <<>>
    /\ mi = 0
    /\ rep_cursor = 0
    /\ replies = <<>>
    /\ ri = 0
    /\ deleted = 0
    /\ scanned = 0
    /\ dlog = <<>>
    /\ tries = 0
    /\ derr = Idle

ExtractIdle == item = Idle /\ vres = Idle /\ bres = Idle /\ epc = "idle"

ExtractInit ==
    /\ GenIdle
    /\ RunIdle
    /\ DelIdle
    /\ prompt = Idle
    /\ cfg \in {load_config(a) : a \in AdminChoices}
    /\ item \in ItemSpace
    /\ vres = Idle
    /\ bres = Idle
    /\ epc = "validate"

ValidateItem ==
    /\ epc = "validate"
    /\ vres' = validate_item(cfg, item)
    /\ epc' = "build"
    /\ UNCHANGED <<cfg, delVars, item, bres, genVars, prompt, runVars>>

BuildRec ==
    /\ epc = "build"
    /\ bres' = build_rec_from_item(cfg, item)
    /\ epc' = "done"
    /\ UNCHANGED <<cfg, delVars, item, vres, genVars, prompt, runVars>>

ExtractNext == ValidateItem \/ BuildRec

SpecExtract == ExtractInit /\ [][ExtractNext]_vars

\* C1: for every item and configuration, validate_item returns ok=true if
\* and only if build_rec_from_item returns a record without raising.
C1_ValidatorAgreesWithExtractor ==
    epc = "done" => (vres.ok <=> ~bres.raised)

\* one direction of C1 that the code keeps: an item that fails extraction
\* also fails the validator
ExtractFailImpliesValidateFail ==
    epc = "done" => (bres.raised => ~vres.ok)

-----------------------------------------------------------------------------
(* SpecGen: one invocation of gemini_generate_text against every pair of   *)
(* responses of the endpoint drawn from GenResponses.                      *)

STOP == <<"S", "T", "O", "P">>

GenParts ==
    {<<>>,
     <<Str(<<"a">>)>>,
     <<Str(<<"a">>), Str(<<"b">>)>>,
     <<Str(<<" ">>)>>,
     <<None>>,
     <<Str(<<" ", "b", "\n">>)>>}

GenFinish == {STOP, MAX_TOKENS, <<"m", "a", "x", "_", "t", "o", "k", "e", "n", "s">>, <<>>}

GenResponses ==
    {[status |-> 200, candidates |-> <<>>], [status |-> 500, candidates |-> <<>>]}
    \cup {[status |-> 200, candidates |-> <<[finishReason |-> f, parts |-> p]>>] :
            f \in GenFinish, p \in GenParts}
    \cup {[status |-> 200,
           candidates |-> <<[finishReason |-> MAX_TOKENS, parts |-> <<Str(<<"a">>)>>],
                            [finishReason |-> STOP, parts |-> <<Str(<<"b">>)>>]>>]}

GenInit ==
    /\ cfg = load_config(<<>>)
    /\ ExtractIdle
    /\ RunIdle
    /\ DelIdle
    /\ prompt = [kind |-> "prompt"]
    /\ gpc = "call1"
    /\ gcalls = <<>>
    /\ data1 = Idle
    /\ text1 = <<>>
    /\ finish1 = <<>>
    /\ data2 = Idle
    /\ gres = Idle

GenNext ==
    \/ \E resp \in GenResponses : GenFirstCall(resp) /\ UNCHANGED <<cfg, delVars, extractVars, prompt, runVars>>
    \/ \E resp \in GenResponses : GenContinue(resp) /\ UNCHANGED <<cfg, delVars, extractVars, prompt, runVars>>

SpecGen == GenInit /\ [][GenNext]_vars

GenDone == gpc \in {"returned", "raised"}

\* what a response says, read off the response itself
HasText(data) ==
    /\ data # Idle
    /\ data.candidates # <<>>
    /\ \E i \in 1..Len(data.candidates[1].parts) :
          LET p == data.candidates[1].parts[i] IN
          IsStr(p) /\ \E j \in 1..Len(p.s) : p.s[j] \notin Whitespace

StopReasonIsMaxTokens(data) ==
    /\ data # Idle
    /\ data.candidates # <<>>
    /\ Upper(data.candidates[1].finishReason) = MAX_TOKENS

ContinuationCalls == Len(SelectSeq(gcalls, LAMBDA c : c.kind = "continue"))

\* C5: once an invocation has ended: a first response with non-empty text
\* and stop reason MAX_TOKENS (in any letter case, as the code compares it)
\* led to exactly one continuation call; a first response with any other
\* stop reason led to none; and never are more than two calls made.
C5_ContinuationCalls ==
    /\ Len(gcalls) <= 2
    /\ GenDone =>
         /\ (HasText(data1) /\ StopReasonIsMaxTokens(data1)) => ContinuationCalls = 1
         /\ (data1 # Idle /\ ~StopReasonIsMaxTokens(data1)) => ContinuationCalls = 0
         /\ data1 = Idle => ContinuationCalls = 0

\* C5 witness: a truncated first response was continued once, and the
\* invocation returned
C5_Witness ==
    /\ gpc = "returned"
    /\ HasText(data1) /\ StopReasonIsMaxTokens(data1)
    /\ ContinuationCalls = 1
    /\ Len(gcalls) = 2

\* C6: when the first response is truncated with non-empty text T1 and the
\* continuation's response (HTTP status below 400) carries no text, the
\* call returns T1 unchanged and raises no error; when it carries text T2
\* the call returns T1, a line break, T2.
C6_TextlessContinuationReturnsFirstText ==
    (GenDone /\ ContinuationCalls = 1 /\ data2 # Idle) =>
        IF HasText(data2)
        THEN gres = Return(text1 \o <<"\n">> \o extract_text(data2).value.text)
        ELSE gres = Return(text1)

\* the part of C6 the code keeps: a continuation with a candidate
C6_ContinuationWithCandidate ==
    (GenDone /\ ContinuationCalls = 1 /\ data2 # Idle /\ data2.candidates # <<>>) =>
        IF HasText(data2)
        THEN gres = Return(text1 \o <<"\n">> \o extract_text(data2).value.text)
        ELSE gres = Return(text1)

-----------------------------------------------------------------------------
(* Chat client of main.py *)

\* variant of slack_api that does not look at the "ok" flag of the answer
slack_api_unchecked(method, resp) == Return(resp)

\* slack_api: one POST; the body's ok decides, whatever the HTTP status
slack_api(method, resp) ==
    IF ~resp.ok THEN Raise(method, resp.error) ELSE Return(resp)

slack_open_dm(resp) ==
    LET d == slack_api("conversations.open", resp) IN
    IF d.raised THEN d
    ELSE IF Falsy(resp.channel)
         THEN Raise("slack_open_dm", "conversations.open missing channel id")
    ELSE Return(resp.channel.s)

slack_post(resp) == slack_api("chat.postMessage", resp)

\* slack_lists_items_list with the cursor: the response is the platform's
slack_lists_items_list(resp) == slack_api("slackLists.items.list", resp)

\* audit_list: the report it prints
RECURSIVE BadItems(_, _)
BadItems(c, its) ==
    IF its = <<>> THEN <<>>
    ELSE LET v == validate_item(c, Head(its)) IN
         (IF v.ok THEN <<>>
          ELSE <<[id |-> Head(its).id, name |-> extract_name(Head(its)), errors |-> v.errs]>>)
         \o BadItems(c, Tail(its))

audit_list(c, its) ==
    [total |-> Len(its),
     ok_items |-> Len(its) - Len(BadItems(c, its)),
     bad |-> BadItems(c, its)]

\* today_ymd_kst() and today_kst() of the run
TODAY_KEY == "2026-11-04"
TODAY_LABEL == "2026-11-04 Wed"

\* variant of make_daily_signature that leaves the item id out
make_daily_signature_dateonly(item_id, date_str) == <<"", date_str>>

\* make_daily_signature: sha256 of "item_id:date", kept as the pair it hashes
make_daily_signature(item_id, date_str) == <<item_id, date_str>>

TIME_CODE_TO_LABEL ==
    ("0" :> "ja") @@ ("1" :> "chuk") @@ ("2" :> "in") @@ ("3" :> "myo") @@
    ("4" :> "jin") @@ ("5" :> "sa") @@ ("6" :> "o") @@ ("7" :> "mi") @@
    ("8" :> "sin") @@ ("9" :> "yu") @@ ("10" :> "sul") @@ ("11" :> "hae") @@
    ("12" :> "unknown")

\* build_prompt: the recipient attributes the instruction text embeds
build_prompt(r) ==
    [kind |-> "prompt",
     name |-> r.name,
     birthday |-> r.birthday,
     gender_ko |-> IF r.gender = "m" THEN "male" ELSE "female",
     time_ko |-> IF r.time_code \in DOMAIN TIME_CODE_TO_LABEL
                 THEN TIME_CODE_TO_LABEL[r.time_code] ELSE "unknown",
     today |-> r.today]

\* the text notify_admins_of_error sends
NotifyMsg(item_id, name, error) ==
    [t |-> "error_notice", item_id |-> item_id, name |-> name, error |-> error]

-----------------------------------------------------------------------------
(* The platform's answers *)

SlackOk == [status |-> 200, ok |-> TRUE, error |-> ""]
SlackRejected == [status |-> 200, ok |-> FALSE, error |-> "rejected"]
SlackRateLimited == [status |-> 429, ok |-> FALSE, error |-> "ratelimited"]

SlackResponses == {SlackOk, SlackRejected, SlackRateLimited}

DmChannel(uid) == <<"D">> \o uid

OpenResponses(uid) ==
    {[status |-> 200, ok |-> TRUE, error |-> "", channel |-> Str(DmChannel(uid))],
     [status |-> 200, ok |-> TRUE, error |-> "", channel |-> None],
     [status |-> 200, ok |-> FALSE, error |-> "rejected", channel |-> None],
     [status |-> 429, ok |-> FALSE, error |-> "ratelimited", channel |-> None]}

\* a page of the list from the cursor on: some items, and the next cursor
\* (0, the empty string, with the last page)
ListResponses(st, cur) ==
    {[status |-> 200, ok |-> TRUE, error |-> "",
      items |-> SubSeq(st, cur + 1, j),
      next_cursor |-> IF j < Len(st) THEN j ELSE 0] :
        j \in IF cur < Len(st) THEN (cur + 1)..Len(st) ELSE {cur}}
    \cup {[status |-> 200, ok |-> FALSE, error |-> "rejected", items |-> <<>>, next_cursor |-> 0],
          [status |-> 429, ok |-> FALSE, error |-> "ratelimited", items |-> <<>>, next_cursor |-> 0]}

-----------------------------------------------------------------------------
(* run(): the batch driver *)

itemVars == <<rec, out_text, didx, dm_channel>>
notVars == <<nidx, nch>>
fixedVars == <<cfg, delVars, extractVars, store, audit>>

Ev(m, to, ok, why, text) == [m |-> m, to |-> to, ok |-> ok, why |-> why, text |-> text]

CurItem == items[idx]
CurSig == make_daily_signature(CurItem.id, TODAY_KEY)

\* variant of Fail in which the exception leaves the loop
Fail_propagates(e) ==
    /\ pc' = "crashed"
    /\ err' = e
    /\ nidx' = 0
    /\ nch' = <<>>
    /\ printed' = printed

\* variant of Fail in which no admin is notified
FailWithoutNotify(e) ==
    /\ pc' = "except"
    /\ err' = e
    /\ nidx' = Len(cfg.admin_user_ids) + 1
    /\ nch' = <<>>
    /\ printed' = Append(printed, [line |-> "ERROR", item_id |-> CurItem.id])

\* an exception reaches the handler of the iteration
Fail(e) ==
    /\ pc' = "except"
    /\ err' = e
    /\ nidx' = 1
    /\ nch' = <<>>
    /\ printed' = Append(printed, [line |-> "ERROR", item_id |-> CurItem.id])

GenReset ==
    /\ gpc' = "idle"
    /\ gcalls' = <<>>
    /\ data1' = Idle
    /\ text1' = <<>>
    /\ finish1' = <<>>
    /\ data2' = Idle
    /\ gres' = Idle

AuthTest(resp) ==
    /\ pc = "auth"
    /\ LET d == slack_api("auth.test", resp) IN
       IF d.raised THEN pc' = "crashed" /\ err' = d.error
       ELSE pc' = "fetch" /\ UNCHANGED err
    /\ UNCHANGED <<fixedVars, genVars, prompt, cursor, fetchlog, items, idx, sent_signatures,
                   itemVars, notVars, calls, report, printed>>

\* variant of FetchPage that stops after the first page
FetchPage_first_page_only(resp) ==
    /\ pc = "fetch"
    /\ fetchlog' = Append(fetchlog, [cursor |-> cursor, resp |-> resp])
    /\ LET d == slack_lists_items_list(resp) IN
       IF d.raised
       THEN /\ pc' = "crashed"
            /\ err' = d.error
            /\ UNCHANGED <<cursor, items>>
       ELSE /\ items' = items \o resp.items
            /\ cursor' = resp.next_cursor
            /\ pc' = "fetched"
            /\ UNCHANGED err
    /\ UNCHANGED <<fixedVars, genVars, prompt, idx, sent_signatures,
                   itemVars, notVars, calls, report, printed>>

\* fetch_all_list_items: one page is requested with the cursor held; the
\* loop ends with the first page whose next cursor is empty
FetchPage(resp) ==
    /\ pc = "fetch"
    /\ fetchlog' = Append(fetchlog, [cursor |-> cursor, resp |-> resp])
    /\ LET d == slack_lists_items_list(resp) IN
       IF d.raised
       THEN /\ pc' = "crashed"
            /\ err' = d.error
            /\ UNCHANGED <<cursor, items>>
       ELSE /\ items' = items \o resp.items
            /\ cursor' = resp.next_cursor
            /\ pc' = IF resp.next_cursor = 0 THEN "fetched" ELSE "fetch"
            /\ UNCHANGED err
    /\ UNCHANGED <<fixedVars, genVars, prompt, idx, sent_signatures,
                   itemVars, notVars, calls, report, printed>>

NoItems ==
    /\ pc = "fetched"
    /\ items = <<>>
    /\ pc' = "done"
    /\ UNCHANGED <<fixedVars, genVars, prompt, cursor, fetchlog, items, idx, sent_signatures,
                   itemVars, err, notVars, calls, report, printed>>

\* variant of AuditOnly in which the flag does not end the run
AuditOnly_off ==
    /\ pc = "fetched"
    /\ items # <<>>
    /\ audit
    /\ idx' = 1
    /\ pc' = "loop"
    /\ UNCHANGED <<fixedVars, genVars, prompt, cursor, fetchlog, items, sent_signatures,
                   itemVars, err, notVars, calls, report, printed>>

AuditOnly ==
    /\ pc = "fetched"
    /\ items # <<>>
    /\ audit
    /\ report' = audit_list(cfg, items)
    /\ pc' = "done"
    /\ UNCHANGED <<fixedVars, genVars, prompt, cursor, fetchlog, items, idx, sent_signatures,
                   itemVars, err, notVars, calls, printed>>

BeginLoop ==
    /\ pc = "fetched"
    /\ items # <<>>
    /\ ~audit
    /\ idx' = 1
    /\ pc' = "loop"
    /\ fetchlog' = <<>>
    /\ UNCHANGED <<fixedVars, genVars, prompt, cursor, items, sent_signatures,
                   itemVars, err, notVars, calls, report, printed>>

LoopEnd ==
    /\ pc = "loop"
    /\ idx > Len(items)
    /\ pc' = "done"
    /\ UNCHANGED <<fixedVars, genVars, prompt, cursor, fetchlog, items, idx, sent_signatures,
                   itemVars, err, notVars, calls, report, printed>>

SkipDuplicate ==
    /\ pc = "loop"
    /\ idx <= Len(items)
    /\ CurSig \in sent_signatures
    /\ calls' = <<Ev("skip", <<>>, TRUE, "skip", None)>>
    /\ printed' = Append(printed, [line |-> "SKIP", item_id |-> CurItem.id])
    /\ pc' = "next"
    /\ UNCHANGED <<fixedVars, genVars, prompt, cursor, fetchlog, items, idx, sent_signatures,
                   itemVars, err, notVars, report>>

StartItem ==
    /\ pc = "loop"
    /\ idx <= Len(items)
    /\ CurSig \notin sent_signatures
    /\ pc' = "build"
    /\ UNCHANGED <<fixedVars, genVars, prompt, cursor, fetchlog, items, idx, sent_signatures,
                   itemVars, err, notVars, calls, report, printed>>

RunBuild ==
    /\ pc = "build"
    /\ LET r == build_rec_from_item(cfg, CurItem) IN
       /\ calls' = Append(calls, Ev("build_rec_from_item", <<>>, ~r.raised, "build", None))
       /\ IF r.raised
          THEN /\ Fail(r.error)
               /\ UNCHANGED <<rec, prompt, genVars>>
          ELSE /\ rec' = r.value
               /\ prompt' = build_prompt([name |-> r.value.name,
                                          birthday |-> r.value.birthday,
                                          gender |-> r.value.gender,
                                          time_code |-> r.value.time_code,
                                          today |-> TODAY_LABEL])
               /\ pc' = "generate"
               /\ gpc' = "call1"
               /\ UNCHANGED <<gcalls, data1, text1, finish1, data2, gres, err, notVars, printed>>
    /\ UNCHANGED <<fixedVars, cursor, fetchlog, items, idx, sent_signatures,
                   out_text, didx, dm_channel, report>>

RunGenFirstCall(resp) ==
    /\ pc = "generate"
    /\ GenFirstCall(resp)
    /\ UNCHANGED <<cfg, delVars, extractVars, prompt, runVars>>

RunGenContinue(resp) ==
    /\ pc = "generate"
    /\ GenContinue(resp)
    /\ UNCHANGED <<cfg, delVars, extractVars, prompt, runVars>>

RunGenerated ==
    /\ pc = "generate"
    /\ gpc \in {"returned", "raised"}
    /\ calls' = calls \o [i \in 1..Len(gcalls) |->
                            Ev("generateContent", <<>>, TRUE, gcalls[i].kind, None)]
    /\ GenReset
    /\ IF gres.raised
       THEN /\ Fail(gres.error)
            /\ UNCHANGED <<out_text, didx>>
       ELSE /\ out_text' = gres.value
            /\ IF rec.is_private
               THEN /\ didx' = 1
                    /\ pc' = IF rec.dm_targets = <<>> THEN "mark" ELSE "dm_open"
               ELSE /\ pc' = "channel"
                    /\ UNCHANGED didx
            /\ UNCHANGED <<err, notVars, printed>>
    /\ UNCHANGED <<fixedVars, prompt, cursor, fetchlog, items, idx, sent_signatures,
                   rec, dm_channel, report>>

OpenDM(resp) ==
    /\ pc = "dm_open"
    /\ LET uid == rec.dm_targets[didx]
           d == slack_open_dm(resp)
       IN  /\ calls' = Append(calls, Ev("conversations.open", uid, resp.ok, "fortune", resp.channel))
           /\ IF d.raised
              THEN /\ Fail(d.error)
                   /\ UNCHANGED dm_channel
              ELSE /\ dm_channel' = d.value
                   /\ pc' = "dm_post"
                   /\ UNCHANGED <<err, notVars, printed>>
    /\ UNCHANGED <<fixedVars, genVars, prompt, cursor, fetchlog, items, idx, sent_signatures,
                   rec, out_text, didx, report>>

PostDM(resp) ==
    /\ pc = "dm_post"
    /\ LET d == slack_post(resp) IN
       /\ calls' = Append(calls, Ev("chat.postMessage", dm_channel, resp.ok, "fortune",
                                    Str(out_text)))
       /\ IF d.raised
          THEN /\ Fail(d.error)
               /\ UNCHANGED didx
          ELSE /\ didx' = didx + 1
               /\ pc' = IF didx < Len(rec.dm_targets) THEN "dm_open" ELSE "mark"
               /\ UNCHANGED <<err, notVars, printed>>
    /\ UNCHANGED <<fixedVars, genVars, prompt, cursor, fetchlog, items, idx, sent_signatures,
                   rec, out_text, dm_channel, report>>

PostChannel(resp) ==
    /\ pc = "channel"
    /\ LET d == slack_post(resp) IN
       /\ calls' = Append(calls, Ev("chat.postMessage", cfg.channel_id, resp.ok, "fortune",
                                    Str(out_text)))
       /\ IF d.raised
          THEN Fail(d.error)
          ELSE pc' = "mark" /\ UNCHANGED <<err, notVars, printed>>
    /\ UNCHANGED <<fixedVars, genVars, prompt, cursor, fetchlog, items, idx, sent_signatures,
                   itemVars, report>>

MarkSent ==
    /\ pc = "mark"
    /\ sent_signatures' = sent_signatures \cup {CurSig}
    /\ printed' = Append(printed, [line |-> "OK", item_id |-> CurItem.id])
    /\ pc' = "next"
    /\ UNCHANGED <<fixedVars, genVars, prompt, cursor, fetchlog, items, idx,
                   itemVars, err, notVars, calls, report>>

\* notify_admins_of_error: one uid of admin_ids; an exception is passed over
NotifyOpen(resp) ==
    /\ pc = "except"
    /\ nidx <= Len(cfg.admin_user_ids)
    /\ LET uid == cfg.admin_user_ids[nidx]
           d == slack_open_dm(resp)
       IN  /\ calls' = Append(calls, Ev("conversations.open", uid, resp.ok, "notify", resp.channel))
           /\ IF d.raised
              THEN /\ nidx' = nidx + 1
                   /\ UNCHANGED <<pc, nch>>
              ELSE /\ nch' = d.value
                   /\ pc' = "except_post"
                   /\ UNCHANGED nidx
    /\ UNCHANGED <<fixedVars, genVars, prompt, cursor, fetchlog, items, idx, sent_signatures,
                   itemVars, err, report, printed>>

NotifyPost(resp) ==
    /\ pc = "except_post"
    /\ calls' = Append(calls, Ev("chat.postMessage", nch, resp.ok, "notify",
                                 NotifyMsg(CurItem.id, extract_name(CurItem), err)))
    /\ nidx' = nidx + 1
    /\ pc' = "except"
    /\ UNCHANGED <<fixedVars, genVars, prompt, cursor, fetchlog, items, idx, sent_signatures,
                   itemVars, err, nch, report, printed>>

\* the handler is through (at once when admin_ids is empty): continue
NotifyDone ==
    /\ pc = "except"
    /\ nidx > Len(cfg.admin_user_ids)
    /\ pc' = "next"
    /\ UNCHANGED <<fixedVars, genVars, prompt, cursor, fetchlog, items, idx, sent_signatures,
                   itemVars, err, notVars, calls, report, printed>>

\* the for loop takes the next item; the iteration's locals go
Advance ==
    /\ pc = "next"
    /\ idx' = idx + 1
    /\ pc' = "loop"
    /\ rec' = Idle
    /\ out_text' = <<>>
    /\ didx' = 0
    /\ dm_channel' = <<>>
    /\ err' = Idle
    /\ nidx' = 0
    /\ nch' = <<>>
    /\ calls' = <<>>
    /\ prompt' = Idle
    /\ UNCHANGED <<fixedVars, genVars, cursor, fetchlog, items, sent_signatures, report, printed>>

-----------------------------------------------------------------------------
(* Spec: one run of the batch driver over every list of at most MaxItems   *)
(* of the items below, with every answer of the platform and the endpoint. *)

MaxItems == 2

ItemPublic ==
    [id |-> "I1",
     fields |-> <<[Field("ColN", "name") EXCEPT !.text = Str(S_kim)],
                  [Field("ColB", "date") EXCEPT !.value = Str(S_date)],
                  [Field("ColG", "gender") EXCEPT !.select = List(<<Str(OptM)>>)],
                  [Field("ColT", "time") EXCEPT !.select = List(<<Str(OptT(<<"3">>))>>)],
                  [Field("ColP", "private") EXCEPT !.value = Bool(FALSE)],
                  [Field("ColA", "assignee") EXCEPT !.user = List(<<Str(U1), Str(U2)>>)]>>]

ItemPrivate ==
    [id |-> "I2",
     fields |-> <<[Field("ColN", "name") EXCEPT !.text = Str(S_kim)],
                  [Field("ColB", "date") EXCEPT !.date = List(<<Str(S_date)>>)],
                  [Field("ColG", "gender") EXCEPT !.value = Str(OptF)],
                  [Field("ColT", "time") EXCEPT !.select = List(<<Str(OptT(<<"1", "2">>))>>)],
                  [Field("ColP", "private") EXCEPT !.value = Bool(TRUE)],
                  [Field("ColA", "assignee") EXCEPT !.user = List(<<Str(U2), Str(U1), Str(U2)>>)]>>]

ItemPrivateNoAssignee ==
    [id |-> "I3",
     fields |-> <<[Field("ColN", "name") EXCEPT !.text = Str(S_kim)],
                  [Field("ColB", "date") EXCEPT !.value = Str(S_date)],
                  [Field("ColG", "gender") EXCEPT !.select = List(<<Str(OptM)>>)],
                  [Field("ColT", "time") EXCEPT !.select = List(<<Str(OptT(<<"0">>))>>)],
                  [Field("ColP", "private") EXCEPT !.checkbox = Bool(TRUE)]>>]

ItemNoBirthday ==
    [id |-> "I4",
     fields |-> <<[Field("ColN", "name") EXCEPT !.text = Str(S_kim)],
                  [Field("ColG", "gender") EXCEPT !.select = List(<<Str(OptF)>>)],
                  [Field("ColT", "time") EXCEPT !.select = List(<<Str(OptT(<<"3">>))>>)],
                  [Field("ColP", "private") EXCEPT !.value = Bool(TRUE)],
                  [Field("ColA", "assignee") EXCEPT !.user = List(<<Str(U1)>>)]>>]

RunItems == {ItemPublic, ItemPrivate, ItemPrivateNoAssignee, ItemNoBirthday}

Stores == UNION {[1..n -> RunItems] : n \in 0..MaxItems}

RunGenResponses ==
    {[status |-> 200, candidates |-> <<[finishReason |-> STOP, parts |-> <<Str(<<"a">>)>>]>>],
     [status |-> 200, candidates |-> <<[finishReason |-> MAX_TOKENS, parts |-> <<Str(<<"a">>)>>]>>],
     [status |-> 200, candidates |-> <<>>],
     [status |-> 500, candidates |-> <<>>]}

Init ==
    /\ cfg \in {load_config(a) : a \in AdminChoices}
    /\ ExtractIdle
    /\ GenIdle
    /\ DelIdle
    /\ prompt = Idle
    /\ store \in Stores
    /\ audit \in BOOLEAN
    /\ pc = "auth"
    /\ cursor = 0
    /\ fetchlog = <<>>
    /\ items = <<>>
    /\ idx = 0
    /\ sent_signatures = {}
    /\ rec = Idle
    /\ out_text = <<>>
    /\ didx = 0
    /\ dm_channel = <<>>
    /\ err = Idle
    /\ nidx = 0
    /\ nch = <<>>
    /\ calls = <<>>
    /\ report = Idle
    /\ printed = <<>>

Next ==
    \/ \E resp \in SlackResponses : AuthTest(resp)
    \/ \E resp \in ListResponses(store, cursor) : FetchPage(resp)
    \/ NoItems
    \/ AuditOnly
    \/ BeginLoop
    \/ LoopEnd
    \/ SkipDuplicate
    \/ StartItem
    \/ RunBuild
    \/ \E resp \in RunGenResponses : RunGenFirstCall(resp)
    \/ \E resp \in RunGenResponses : RunGenContinue(resp)
    \/ RunGenerated
    \/ \E resp \in OpenResponses(IF pc = "dm_open" THEN rec.dm_targets[didx] ELSE <<>>) :
          OpenDM(resp)
    \/ \E resp \in SlackResponses : PostDM(resp)
    \/ \E resp \in SlackResponses : PostChannel(resp)
    \/ MarkSent
    \/ \E resp \in OpenResponses(IF pc = "except" /\ nidx <= Len(cfg.admin_user_ids)
                                 THEN cfg.admin_user_ids[nidx] ELSE <<>>) :
          NotifyOpen(resp)
    \/ \E resp \in SlackResponses : NotifyPost(resp)
    \/ NotifyDone
    \/ Advance

Spec == Init /\ [][Next]_vars

-----------------------------------------------------------------------------
(* What was called for the item of the current iteration *)

InItem ==
    pc \in {"build", "generate", "dm_open", "dm_post", "channel", "mark",
            "except", "except_post", "next"}

Skipped == calls # <<>> /\ calls[1].m = "skip"

Sel(why, m) == SelectSeq(calls, LAMBDA e : e.m = m /\ e.why = why)
Accepted(evs) == SelectSeq(evs, LAMBDA e : e.ok)
Targets(evs) == [i \in 1..Len(evs) |-> evs[i].to]
DmChannels(uids) == [i \in 1..Len(uids) |-> DmChannel(uids[i])]

FortuneOpens == Sel("fortune", "conversations.open")
FortunePosts == Sel("fortune", "chat.postMessage")
NotifyOpens == Sel("notify", "conversations.open")
NotifyPosts == Sel("notify", "chat.postMessage")
GenerationCalls == Len(gcalls) + Len(SelectSeq(calls, LAMBDA e : e.m = "generateContent"))
ExtractionCalls == Len(SelectSeq(calls, LAMBDA e : e.m = "build_rec_from_item"))

NoFortuneCall == FortuneOpens = <<>> /\ FortunePosts = <<>>

EarlierOccurrence == \E j \in 1..(idx - 1) : items[j].id = CurItem.id

\* C2: an item whose privacy checkbox is true, whose assignee field yields
\* no user id, with no admin id configured, fails extraction: no text is
\* generated for it, nothing is delivered and its signature is not recorded.
C2_PrivateWithoutTargetsFailsExtraction ==
    (/\ InItem /\ pc # "build" /\ ~Skipped
     /\ extract_checkbox(CurItem, cfg.cols.private_col) = Bool(TRUE)
     /\ extract_user_ids(CurItem, cfg.cols.assignee_col) = <<>>
     /\ cfg.admin_user_ids = <<>>)
    => /\ rec = Idle
       /\ err # Idle
       /\ GenerationCalls = 0
       /\ NoFortuneCall
       /\ CurSig \notin sent_signatures

\* every delivery of the item was made and accepted
DeliveredAll ==
    /\ rec # Idle
    /\ \A i \in 1..Len(calls) : calls[i].why = "fortune" => calls[i].ok
    /\ IF rec.is_private
       THEN /\ Targets(FortuneOpens) = rec.dm_targets
            /\ Targets(FortunePosts) = DmChannels(rec.dm_targets)
       ELSE /\ FortuneOpens = <<>>
            /\ Targets(FortunePosts) = <<cfg.channel_id>>

\* C3: the signature of the item of the current iteration is in
\* sent_signatures only if every delivery for the item succeeded; when a step
\* of extraction, generation or delivery failed the signature is not in it,
\* and the posts accepted before the failure (one per earlier dm target)
\* are still there.
C3_SentOnlyAfterAllDeliveries ==
    (InItem /\ ~Skipped) =>
        /\ CurSig \in sent_signatures => (DeliveredAll /\ err = Idle)
        /\ err # Idle =>
             /\ CurSig \notin sent_signatures
             /\ (rec # Idle /\ rec.is_private) =>
                   Targets(Accepted(FortunePosts)) =
                       DmChannels(SubSeq(rec.dm_targets, 1, didx - 1))

\* C3 witness: a private item with several dm targets was delivered to each
\* and its signature recorded
C3_Witness ==
    /\ pc = "next"
    /\ ~Skipped
    /\ CurSig \in sent_signatures
    /\ rec # Idle /\ rec.is_private
    /\ Len(Accepted(FortunePosts)) >= 2

\* C4: a rate-limit answer of the platform never surfaces as an error of
\* the call (it is waited out and the call retried).
C4_RateLimitNeverSurfaces ==
    err = Idle \/ err.msg # "ratelimited"

\* C7: the run fails only before the loop; inside it every item of the list
\* gets its iteration, in list order, whatever fails in the iteration or in
\* the notification of the admins; the run is done only after the last item.
C7_EveryItemReached ==
    /\ pc = "crashed" => idx = 0
    /\ idx >= 1 =>
         /\ Len(printed) \in {idx - 1, idx}
         /\ Len(printed) <= Len(items)
         /\ \A k \in 1..Len(printed) : printed[k].item_id = items[k].id
    /\ (pc = "done" /\ idx >= 1) => (idx = Len(items) + 1 /\ Len(printed) = Len(items))

\* C7 witness: a run is done whose first item failed, with admins to
\* notify, and whose last item was delivered
C7_Witness ==
    /\ pc = "done"
    /\ Len(items) >= 2
    /\ Len(printed) = Len(items)
    /\ printed[1].line = "ERROR"
    /\ printed[Len(items)].line = "OK"
    /\ cfg.admin_user_ids # <<>>

\* C8 as stated: the second occurrence of an item id in the list is skipped.
C8_SecondOccurrenceSkipped ==
    (InItem /\ EarlierOccurrence) => Skipped

\* C8 as amended: an item is skipped exactly when an earlier occurrence of
\* its id was delivered in this run (its signature recorded); a skipped
\* item gets no extraction, no generation call, no open-DM and no post. A
\* second occurrence whose first failed is processed again.
C8_SkippedIffEarlierDelivered ==
    InItem =>
        /\ Skipped <=> \E j \in 1..(idx - 1) :
                          items[j].id = CurItem.id /\ printed[j].line = "OK"
        /\ Skipped =>
             /\ Len(calls) = 1
             /\ ExtractionCalls = 0
             /\ GenerationCalls = 0
             /\ NoFortuneCall
             /\ NotifyOpens = <<>> /\ NotifyPosts = <<>>
             /\ rec = Idle

\* C8 witness: the second occurrence of a delivered item is skipped
C8_Witness ==
    /\ pc = "next"
    /\ Skipped
    /\ EarlierOccurrence

\* the first occurrences of xs, in order
RECURSIVE FirstOccurrences(_, _)
FirstOccurrences(xs, i) ==
    IF i > Len(xs) THEN <<>>
    ELSE (IF \E j \in 1..(i - 1) : xs[j] = xs[i] THEN <<>> ELSE <<xs[i]>>)
         \o FirstOccurrences(xs, i + 1)

ExpectedTargets ==
    FirstOccurrences(extract_user_ids(CurItem, cfg.cols.assignee_col)
                     \o cfg.admin_user_ids, 1)

\* C9: for an item extracted and generated, with every call accepted: a
\* public item has exactly one post, to the shared channel, and no DM is
\* opened; a private item has exactly one post per dm target (assignees
\* then admins, duplicates removed), in that order, and none to the channel.
C9_OnePostPerTarget ==
    (/\ pc = "next" /\ ~Skipped
     /\ printed[idx].line = "OK"
     /\ \A i \in 1..Len(calls) : calls[i].ok)
    => /\ \A i \in 1..Len(FortunePosts) : FortunePosts[i].text = Str(out_text)
       /\ IF extract_checkbox(CurItem, cfg.cols.private_col) = Bool(TRUE)
          THEN /\ Targets(FortuneOpens) = ExpectedTargets
               /\ Targets(FortunePosts) = DmChannels(ExpectedTargets)
               /\ \A i \in 1..Len(FortunePosts) : FortunePosts[i].to # cfg.channel_id
          ELSE /\ FortuneOpens = <<>>
               /\ Targets(FortunePosts) = <<cfg.channel_id>>

\* C9 witness: a private item whose assignees and admins overlap was
\* delivered to three dm targets
C9_Witness ==
    /\ pc = "next" /\ ~Skipped
    /\ printed[idx].line = "OK"
    /\ rec # Idle /\ rec.is_private
    /\ Len(FortunePosts) = 3
    /\ Len(extract_user_ids(CurItem, cfg.cols.assignee_col) \o cfg.admin_user_ids) > 3

NoBirthdayField == field_by_column(CurItem.fields, cfg.cols.birthday_col) = None

\* C10 as stated: for an item without a birthday field there is no
\* generation call and no fortune post, every configured admin id gets
\* exactly one error notification, and the signature stays unrecorded.
C10_OneNotificationPerAdmin ==
    (pc = "next" /\ NoBirthdayField) =>
        /\ GenerationCalls = 0
        /\ NoFortuneCall
        /\ CurSig \notin sent_signatures
        /\ \A k \in 1..Len(cfg.admin_user_ids) :
              Len(SelectSeq(Accepted(NotifyPosts),
                            LAMBDA e : e.to = DmChannel(cfg.admin_user_ids[k]))) = 1

\* the posts that follow the opens that returned a channel
RECURSIVE PostsAfter(_)
PostsAfter(opens) ==
    IF opens = <<>> THEN <<>>
    ELSE (IF opens[1].ok /\ ~Falsy(opens[1].text) THEN <<opens[1].text.s>> ELSE <<>>)
         \o PostsAfter(Tail(opens))

\* C10 as amended: for an item without a birthday field there is no
\* generation call and no fortune call, the signature stays unrecorded and
\* the loop goes on; the error is notified by one attempt per entry of the
\* admin id list, in order: one open-DM, and one post when the open
\* returned a channel. A rejected open or post is passed over, so that
\* admin gets no notification; when every call is accepted each entry gets
\* exactly one.
C10_OneNotificationAttemptPerAdmin ==
    (pc = "next" /\ NoBirthdayField) =>
        /\ GenerationCalls = 0
        /\ NoFortuneCall
        /\ CurSig \notin sent_signatures
        /\ printed[idx].line = "ERROR"
        /\ err # Idle /\ err.msg = "birthday missing"
        /\ Targets(NotifyOpens) = cfg.admin_user_ids
        /\ Targets(NotifyPosts) = PostsAfter(NotifyOpens)
        /\ (\A i \in 1..Len(calls) : calls[i].why = "notify" =>
                                      (calls[i].ok /\ ~Falsy(calls[i].text)))
           => Targets(Accepted(NotifyPosts)) = DmChannels(cfg.admin_user_ids)

\* C10 witness: the item failed with two admins configured, the first of
\* whom could not be notified
C10_Witness ==
    /\ pc = "next" /\ NoBirthdayField
    /\ Len(cfg.admin_user_ids) = 2
    /\ Len(NotifyOpens) = 2
    /\ ~NotifyOpens[1].ok
    /\ Len(Accepted(NotifyPosts)) = 1

-----------------------------------------------------------------------------
(* The birthday of a recipient record *)

IsYearMonthDay(s) ==
    /\ Len(s) = 10
    /\ s[5] = "-" /\ s[8] = "-"
    /\ \A i \in (1..10) \ {5, 8} : s[i] \in {"0", "1", "2", "3", "4", "5", "6", "7", "8", "9"}

\* C11: every record build_rec_from_item returns has a birthday of the
\* shape YYYY-MM-DD; an item whose birthday column holds a non-empty value
\* of another shape is rejected by the extraction.
C11_RecordBirthdayMatchesPattern ==
    (epc = "done" /\ ~bres.raised) => IsYearMonthDay(bres.value.birthday)

-----------------------------------------------------------------------------
(* Audit mode *)

\* C12: when the audit flag is set, a run makes no generation call, opens no
\* direct-message channel and posts no message, whatever the items and the
\* admins configured: it never enters the loop, and the only platform calls
\* are auth.test and the pages of slackLists.items.list.
C12_AuditContactsNoGenerationNoDelivery ==
    audit =>
        /\ pc \in {"auth", "fetch", "fetched", "done", "crashed"}
        /\ calls = <<>>
        /\ gcalls = <<>> /\ gpc = "idle"
        /\ idx = 0
        /\ printed = <<>>
        /\ sent_signatures = {}

\* C12 witness: an audit run reported failing items, with admins configured
C12_Witness ==
    /\ audit
    /\ pc = "done"
    /\ report # Idle
    /\ report.bad # <<>>
    /\ cfg.admin_user_ids # <<>>

-----------------------------------------------------------------------------
(* The paginated fetch of the list items *)

RECURSIVE PageItems(_)
PageItems(log) ==
    IF log = <<>> THEN <<>>
    ELSE PageItems(SubSeq(log, 1, Len(log) - 1)) \o log[Len(log)].resp.items

Fetching == pc \in {"fetch", "fetched"} \/ (pc = "crashed" /\ fetchlog # <<>>)

\* C13: the first page is requested with the empty cursor and each next
\* page with the cursor the page before returned; a next page is requested
\* only after a page with a non-empty next cursor; the items held are the
\* items of the pages in page order; and the fetch returns exactly at the
\* first page whose next cursor is empty (0 stands for the empty or absent
\* cursor), with every item of the list once, in order.
C13_FetchAccumulatesAllPages ==
    Fetching =>
        /\ fetchlog # <<>> => fetchlog[1].cursor = 0
        /\ \A k \in 2..Len(fetchlog) :
              /\ fetchlog[k - 1].resp.ok
              /\ fetchlog[k - 1].resp.next_cursor # 0
              /\ fetchlog[k].cursor = fetchlog[k - 1].resp.next_cursor
        /\ items = PageItems(fetchlog)
        /\ pc = "fetched" <=>
              (fetchlog # <<>> /\ fetchlog[Len(fetchlog)].resp.ok
                               /\ fetchlog[Len(fetchlog)].resp.next_cursor = 0)
        /\ pc = "fetched" => items = store

\* C13 witness: the list was fetched in two pages
C13_Witness ==
    /\ pc = "fetched"
    /\ Len(fetchlog) = 2
    /\ fetchlog[1].resp.items # <<>>
    /\ fetchlog[2].resp.items # <<>>
    /\ items = store

-----------------------------------------------------------------------------
(* The deletion utility: .github/workflows/delete_bot_messages.py, and      *)
(* tools/delete_bot_messages.py where tool is TRUE (no dry run, no cap,     *)
(* every delete call counted).                                              *)

LowerChar(c) ==
    CASE c = "A" -> "a" [] c = "B" -> "b" [] c = "C" -> "c" [] c = "D" -> "d"
      [] c = "E" -> "e" [] c = "F" -> "f" [] c = "G" -> "g" [] c = "H" -> "h"
      [] c = "I" -> "i" [] c = "J" -> "j" [] c = "K" -> "k" [] c = "L" -> "l"
      [] c = "M" -> "m" [] c = "N" -> "n" [] c = "O" -> "o" [] c = "P" -> "p"
      [] c = "Q" -> "q" [] c = "R" -> "r" [] c = "S" -> "s" [] c = "T" -> "t"
      [] c = "U" -> "u" [] c = "V" -> "v" [] c = "W" -> "w" [] c = "X" -> "x"
      [] c = "Y" -> "y" [] c = "Z" -> "z" [] OTHER -> c

Lower(s) == [i \in 1..Len(s) |-> LowerChar(s[i])]

TrueWords ==
    {<<"1">>, <<"t", "r", "u", "e">>, <<"y", "e", "s">>, <<"y">>, <<"o", "n">>}

FalseWords ==
    {<<"0">>, <<"f", "a", "l", "s", "e">>, <<"n", "o">>, <<"n">>, <<"o", "f", "f">>}

\* variant of env_bool that falls back to FALSE
env_bool_default_false(raw, default) ==
    LET v == Lower(Strip(IF raw = None THEN <<>> ELSE raw.s)) IN
    IF v \in TrueWords THEN TRUE ELSE FALSE

\* env_bool(name, default): raw is os.getenv(name), None when unset
env_bool(raw, default) ==
    LET v == Lower(Strip(IF raw = None THEN <<>> ELSE raw.s)) IN
    IF v \in TrueWords THEN TRUE
    ELSE IF v \in FalseWords THEN FALSE
    ELSE default

DEFAULT_MAX_DELETE == 100000

\* slack_api of the utility: a 429, or a body saying "ratelimited", is
\* waited out and the call posted again; any other answer is returned
RateLimited(resp) == resp.status = 429 \/ resp.error = "ratelimited"

BOT_USER == "UB"

\* is_bot_authored(msg, bot_user_id, bot_id)
is_bot_authored(msg, bot_user_id, b_id) ==
    \/ msg.user = bot_user_id
    \/ (b_id # "None" /\ msg.bot_id = b_id)
    \/ (msg.subtype = "bot_message" /\ msg.user = bot_user_id)

\* delete_message(..., dry_run): whether the deletion is reported successful
\* (tools/: the answer is only printed, and the caller counts every call)
delete_message(resp, dry) ==
    IF dry THEN TRUE ELSE resp.ok

-----------------------------------------------------------------------------
(* The channel: parent messages, each with the replies of its thread *)

ByBotUser == [user |-> BOT_USER, bot_id |-> "None", subtype |-> "None"]
ByBotId == [user |-> "None", bot_id |-> "B1", subtype |-> "bot_message"]
ByHuman == [user |-> "UH", bot_id |-> "None", subtype |-> "None"]

\* a parent's author and the authors of its replies
Shapes ==
    {[author |-> ByBotUser, thread |-> <<>>],
     [author |-> ByBotId, thread |-> <<ByHuman, ByBotUser>>],
     [author |-> ByHuman, thread |-> <<ByBotUser>>]}

MaxMsgs == 2

Channels == UNION {[1..n -> Shapes] : n \in 0..MaxMsgs}

ParentTs(k) == 10 * k
ReplyTs(k, j) == 10 * k + j

Message(a, ts, n) ==
    [ts |-> ts, user |-> a.user, bot_id |-> a.bot_id, subtype |-> a.subtype,
     reply_count |-> n]

\* what conversations.history holds
History(ch) ==
    [k \in 1..Len(ch) |-> Message(ch[k].author, ParentTs(k), Len(ch[k].thread))]

\* what conversations.replies holds for the thread of the k-th message: the
\* parent first, then the replies
Thread(ch, k) ==
    <<Message(ch[k].author, ParentTs(k), Len(ch[k].thread))>> \o
    [j \in 1..Len(ch[k].thread) |-> Message(ch[k].thread[j], ReplyTs(k, j), 0)]

SlackRateLimitedBody == [status |-> 200, ok |-> FALSE, error |-> "ratelimited"]

DelResponses == SlackResponses \cup {SlackRateLimitedBody}

AuthResponses ==
    {[status |-> 200, ok |-> TRUE, error |-> "", bot_id |-> b] : b \in {"B1", "None"}}
    \cup {[status |-> r.status, ok |-> r.ok, error |-> r.error, bot_id |-> "None"] :
             r \in {SlackRejected, SlackRateLimited, SlackRateLimitedBody}}

\* a page of a sequence from the cursor on, or a refusal
PageResponses(all, cur) ==
    {[status |-> 200, ok |-> TRUE, error |-> "",
      messages |-> SubSeq(all, cur + 1, j),
      next_cursor |-> IF j < Len(all) THEN j ELSE 0] :
        j \in IF cur < Len(all) THEN (cur + 1)..Len(all) ELSE {cur}}
    \cup {[status |-> r.status, ok |-> r.ok, error |-> r.error,
           messages |-> <<>>, next_cursor |-> 0] :
             r \in {SlackRejected, SlackRateLimited}}

MaxWaits == 1

-----------------------------------------------------------------------------
(* main() of the deletion utility *)

scanVars == <<hist_cursor, msgs, mi, scanned>>
threadVars == <<rep_cursor, replies, ri>>
setupVars == <<tool, dry_raw, dry_run, max_delete, chan, bot_id>>
otherVars == <<cfg, extractVars, genVars, prompt, runVars>>

CurMsg == msgs[mi]
CurReply == replies[ri]
\* the position in the channel of the message being scanned
CurPos == CurMsg.ts \div 10

\* the call is posted again after the wait
Retry ==
    /\ tries < MaxWaits
    /\ tries' = tries + 1

\* a call (or a dry-run line): the message or thread it is about, the cursor
\* sent, the next cursor returned
DEv(kind, ts, cur, next, ok) ==
    [kind |-> kind, ts |-> ts, cursor |-> cur, next |-> next, ok |-> ok]

\* auth_test
DAuthTest(resp) ==
    /\ dpc = "auth"
    /\ IF RateLimited(resp)
       THEN Retry /\ UNCHANGED <<dpc, bot_id, derr>>
       ELSE /\ tries' = 0
            /\ IF ~resp.ok
               THEN /\ dpc' = "crashed"
                    /\ derr' = [fn |-> "auth.test", msg |-> resp.error]
                    /\ UNCHANGED bot_id
               ELSE /\ dpc' = "history"
                    /\ bot_id' = resp.bot_id
                    /\ UNCHANGED derr
    /\ UNCHANGED <<tool, dry_raw, dry_run, max_delete, chan, scanVars, threadVars,
                   deleted, dlog, otherVars>>

\* list_channel_messages, and the test of an empty last page
ListHistory(resp) ==
    /\ dpc = "history"
    /\ IF RateLimited(resp)
       THEN Retry /\ UNCHANGED <<dpc, derr, hist_cursor, msgs, mi, dlog>>
       ELSE /\ tries' = 0
            /\ dlog' = Append(dlog, DEv("conversations.history", 0, hist_cursor,
                                        resp.next_cursor, resp.ok))
            /\ IF ~resp.ok
               THEN /\ dpc' = "crashed"
                    /\ derr' = [fn |-> "conversations.history", msg |-> resp.error]
                    /\ UNCHANGED <<hist_cursor, msgs, mi>>
               ELSE /\ msgs' = resp.messages
                    /\ hist_cursor' = resp.next_cursor
                    /\ mi' = 1
                    /\ dpc' = IF ~tool /\ resp.messages = <<>> /\ resp.next_cursor = 0
                              THEN "summary" ELSE "msg"
                    /\ UNCHANGED derr
    /\ UNCHANGED <<setupVars, scanned, threadVars, deleted, otherVars>>

\* the page is exhausted: the next page, or the summary
PageEnd ==
    /\ dpc = "msg"
    /\ mi > Len(msgs)
    /\ dpc' = IF hist_cursor = 0 THEN "summary" ELSE "history"
    /\ UNCHANGED <<setupVars, scanVars, threadVars, deleted, dlog, tries, derr, otherVars>>

\* a message of another author is passed over
SkipMessage ==
    /\ dpc = "msg"
    /\ mi <= Len(msgs)
    /\ ~is_bot_authored(CurMsg, BOT_USER, bot_id)
    /\ scanned' = scanned + 1
    /\ mi' = mi + 1
    /\ UNCHANGED <<setupVars, dpc, hist_cursor, msgs, threadVars, deleted, dlog, tries,
                   derr, otherVars>>

\* a message of the bot: its thread first when it has replies
TakeMessage ==
    /\ dpc = "msg"
    /\ mi <= Len(msgs)
    /\ is_bot_authored(CurMsg, BOT_USER, bot_id)
    /\ scanned' = scanned + 1
    /\ IF CurMsg.reply_count > 0
       THEN dpc' = "replies" /\ rep_cursor' = 0
       ELSE dpc' = "parent" /\ UNCHANGED rep_cursor
    /\ UNCHANGED <<setupVars, hist_cursor, msgs, mi, replies, ri, deleted, dlog, tries,
                   derr, otherVars>>

\* list_thread_replies
ListReplies(resp) ==
    /\ dpc = "replies"
    /\ IF RateLimited(resp)
       THEN Retry /\ UNCHANGED <<dpc, derr, threadVars, dlog>>
       ELSE /\ tries' = 0
            /\ dlog' = Append(dlog, DEv("conversations.replies", CurMsg.ts, rep_cursor,
                                        resp.next_cursor, resp.ok))
            /\ IF ~resp.ok
               THEN /\ dpc' = "crashed"
                    /\ derr' = [fn |-> "conversations.replies", msg |-> resp.error]
                    /\ UNCHANGED threadVars
               ELSE /\ replies' = resp.messages
                    /\ rep_cursor' = resp.next_cursor
                    /\ ri' = 1
                    /\ dpc' = "reply"
                    /\ UNCHANGED derr
    /\ UNCHANGED <<setupVars, scanVars, deleted, otherVars>>

\* the page of replies is exhausted: the next page, or the parent
RepliesEnd ==
    /\ dpc = "reply"
    /\ ri > Len(replies)
    /\ dpc' = IF rep_cursor = 0 THEN "parent" ELSE "replies"
    /\ UNCHANGED <<setupVars, scanVars, threadVars, deleted, dlog, tries, derr, otherVars>>

\* the parent itself, or a reply of another author, is passed over
SkipReply ==
    /\ dpc = "reply"
    /\ ri <= Len(replies)
    /\ CurReply.ts = CurMsg.ts \/ ~is_bot_authored(CurReply, BOT_USER, bot_id)
    /\ ri' = ri + 1
    /\ UNCHANGED <<setupVars, scanVars, dpc, rep_cursor, replies, deleted, dlog, tries,
                   derr, otherVars>>

DeleteDue ==
    \/ dpc = "parent"
    \/ /\ dpc = "reply"
       /\ ri <= Len(replies)
       /\ CurReply.ts # CurMsg.ts
       /\ is_bot_authored(CurReply, BOT_USER, bot_id)

DueTs == IF dpc = "parent" THEN CurMsg.ts ELSE CurReply.ts

\* variant of CapReached: no cap
CapNever == FALSE

CapReached == ~tool /\ deleted >= max_delete

\* the workflow's utility returns before the delete that would pass the cap
CapStop ==
    /\ DeleteDue
    /\ CapReached
    /\ dpc' = "stopped"
    /\ UNCHANGED <<setupVars, scanVars, threadVars, deleted, dlog, tries, derr, otherVars>>

\* after the delete: the next reply, or the next message
AfterDelete ==
    IF dpc = "parent"
    THEN mi' = mi + 1 /\ dpc' = "msg" /\ UNCHANGED ri
    ELSE ri' = ri + 1 /\ UNCHANGED <<mi, dpc>>

\* variant of Delete in which a rejected delete ends the run
Delete_raises(resp) ==
    /\ DeleteDue
    /\ ~CapReached
    /\ ~dry_run
    /\ IF RateLimited(resp)
       THEN Retry /\ UNCHANGED <<dpc, mi, ri, deleted, dlog, derr>>
       ELSE /\ tries' = 0
            /\ dlog' = Append(dlog, DEv("chat.delete", DueTs, 0, 0, resp.ok))
            /\ IF resp.ok
               THEN /\ deleted' = deleted + 1
                    /\ AfterDelete
                    /\ UNCHANGED derr
               ELSE /\ dpc' = "crashed"
                    /\ derr' = [fn |-> "chat.delete", msg |-> resp.error]
                    /\ UNCHANGED <<mi, ri, deleted>>
    /\ UNCHANGED <<setupVars, hist_cursor, msgs, scanned, rep_cursor, replies, otherVars>>

\* delete_message with the platform called, and the count of the caller
Delete(resp) ==
    /\ DeleteDue
    /\ ~CapReached
    /\ ~dry_run
    /\ IF RateLimited(resp)
       THEN Retry /\ UNCHANGED <<dpc, mi, ri, deleted, dlog>>
       ELSE /\ tries' = 0
            /\ dlog' = Append(dlog, DEv("chat.delete", DueTs, 0, 0, resp.ok))
            /\ deleted' = IF tool \/ delete_message(resp, dry_run)
                          THEN deleted + 1 ELSE deleted
            /\ AfterDelete
    /\ UNCHANGED <<setupVars, hist_cursor, msgs, scanned, rep_cursor, replies, derr,
                   otherVars>>

\* delete_message in a dry run: a line is printed, no call is made
DeleteDry ==
    /\ DeleteDue
    /\ ~CapReached
    /\ dry_run
    /\ dlog' = Append(dlog, DEv("dry", DueTs, 0, 0, TRUE))
    /\ deleted' = IF delete_message(SlackOk, dry_run) THEN deleted + 1 ELSE deleted
    /\ AfterDelete
    /\ UNCHANGED <<setupVars, hist_cursor, msgs, scanned, rep_cursor, replies, tries, derr,
                   otherVars>>

MaxDeleteChoices == {1, 2, DEFAULT_MAX_DELETE}

DryRunChoices ==
    {None, Str(<<" ", "O", "n">>), Str(<<"N", "o", " ">>), Str(<<"m", "a", "y", "b", "e">>)}

DelInit ==
    /\ cfg = load_config(<<>>)
    /\ ExtractIdle
    /\ GenIdle
    /\ RunIdle
    /\ prompt = Idle
    /\ tool \in BOOLEAN
    /\ dry_raw \in IF tool THEN {Str(<<"N", "o", " ">>)} ELSE DryRunChoices
    /\ dry_run = env_bool(dry_raw, TRUE)
    /\ max_delete \in IF tool THEN {DEFAULT_MAX_DELETE} ELSE MaxDeleteChoices
    /\ chan \in Channels
    /\ dpc = "auth"
    /\ bot_id = "None"
    /\ hist_cursor = 0
    /\ msgs = <<>>
    /\ mi = 0
    /\ rep_cursor = 0
    /\ replies = <<>>
    /\ ri = 0
    /\ deleted = 0
    /\ scanned = 0
    /\ dlog = <<>>
    /\ tries = 0
    /\ derr = Idle

DelNext ==
    \/ \E resp \in AuthResponses : DAuthTest(resp)
    \/ \E resp \in PageResponses(History(chan), hist_cursor) : ListHistory(resp)
    \/ PageEnd
    \/ SkipMessage
    \/ TakeMessage
    \/ \E resp \in PageResponses(IF dpc = "replies" THEN Thread(chan, CurPos) ELSE <<>>,
                                 rep_cursor) : ListReplies(resp)
    \/ RepliesEnd
    \/ SkipReply
    \/ CapStop
    \/ \E resp \in DelResponses : Delete(resp)
    \/ DeleteDry

SpecDelete == DelInit /\ [][DelNext]_vars

\* both programs that page through the platform's answers
FetchInit == Init \/ DelInit

FetchNext == Next \/ DelNext

SpecFetch == FetchInit /\ [][FetchNext]_vars

-----------------------------------------------------------------------------
(* What the deletion utility did, read off its log *)

Kind(k) == SelectSeq(dlog, LAMBDA e : e.kind = k)
IsDeletion(e) == e.kind \in {"chat.delete", "dry"}
Deletions == SelectSeq(dlog, IsDeletion)
DeletionTs == [i \in 1..Len(Deletions) |-> Deletions[i].ts]
SuccessesBefore(i) ==
    Cardinality({j \in 1..(i - 1) : IsDeletion(dlog[j]) /\ dlog[j].ok})

IsPrefix(a, b) == Len(a) <= Len(b) /\ SubSeq(b, 1, Len(a)) = a

\* the author is the bot, for the bot id auth.test gave
ByBot(a, b) == a = ByBotUser \/ (a = ByBotId /\ b = "B1")

BotReplies(ch, b, k) ==
    LET all == [j \in 1..Len(ch[k].thread) |-> [a |-> ch[k].thread[j], ts |-> ReplyTs(k, j)]]
        mine == SelectSeq(all, LAMBDA r : ByBot(r.a, b))
    IN  [j \in 1..Len(mine) |-> mine[j].ts]

\* the bot's messages in scan order: of each message of the bot, its
\* replies in the thread, then the message itself
RECURSIVE ExpectedDeletes(_, _, _)
ExpectedDeletes(ch, b, k) ==
    IF k > Len(ch) THEN <<>>
    ELSE (IF ByBot(ch[k].author, b) THEN BotReplies(ch, b, k) \o <<ParentTs(k)>> ELSE <<>>)
         \o ExpectedDeletes(ch, b, k + 1)

Scanning == dpc \in {"history", "msg", "replies", "reply", "parent", "summary", "stopped"}

\* the history pages and the pages of each thread are requested in a chain
\* of cursors, and at the summary every message was scanned once
DeletionScanPagination ==
    LET h == Kind("conversations.history")
        r == Kind("conversations.replies")
    IN  /\ h # <<>> => h[1].cursor = 0
        /\ \A k \in 2..Len(h) :
              h[k - 1].ok /\ h[k - 1].next # 0 /\ h[k].cursor = h[k - 1].next
        /\ r # <<>> => r[1].cursor = 0
        /\ \A k \in 2..Len(r) :
              /\ r[k - 1].ok
              /\ IF r[k - 1].next = 0
                 THEN r[k].cursor = 0 /\ r[k].ts # r[k - 1].ts
                 ELSE r[k].cursor = r[k - 1].next /\ r[k].ts = r[k - 1].ts
        /\ dpc = "summary" =>
              /\ scanned = Len(chan)
              /\ h # <<>> /\ h[Len(h)].next = 0
              /\ r # <<>> => r[Len(r)].next = 0

\* C13, both fetch loops: fetch_all_list_items as in
\* C13_FetchAccumulatesAllPages, and the scan loops of the deletion utility
\* as in DeletionScanPagination: each next page is requested with the cursor
\* the page before returned, the items of all pages are taken in page order,
\* none dropped or repeated, and the loop ends exactly at the first page
\* whose next cursor is empty, with no further request.
C13_PaginatedFetch ==
    /\ C13_FetchAccumulatesAllPages
    /\ DeletionScanPagination

\* C14: a rejected delete call raises no error and does not end the scan:
\* the run fails only by auth.test or a page fetch; the delete attempts are
\* made in scan order over the bot's messages and replies whatever the
\* answers to earlier attempts; a run that reaches the summary has made one
\* attempt for each of them; and a run that returns early does so by the
\* cap alone (workflow utility), with that many accepted deletions.
C14_RejectedDeleteDoesNotStopScan ==
    /\ Scanning => derr = Idle
    /\ dpc = "crashed" =>
          derr.fn \in {"auth.test", "conversations.history", "conversations.replies"}
    /\ IsPrefix(DeletionTs, ExpectedDeletes(chan, bot_id, 1))
    /\ dpc = "summary" => DeletionTs = ExpectedDeletes(chan, bot_id, 1)
    /\ dpc = "stopped" => (~tool /\ SuccessesBefore(Len(dlog) + 1) = max_delete)

\* C14 witness: the run reached the summary although its first delete call
\* was rejected, with later delete calls made
C14_Witness ==
    /\ dpc = "summary"
    /\ Len(Deletions) >= 3
    /\ ~Deletions[1].ok
    /\ Deletions[3].ok

\* C15 as stated: in the workflow utility the count of successful deletions
\* never passes MAX_DELETE, and once it equals MAX_DELETE no other delete
\* call is issued and no other page is fetched.
C15_CapStopsDeletesAndFetches ==
    ~tool =>
        /\ deleted <= max_delete
        /\ \A i \in 1..Len(dlog) : SuccessesBefore(i) < max_delete

\* C15 as amended: in the workflow utility the count of deletions reported
\* successful (dry-run lines included) is the value of deleted and never
\* passes MAX_DELETE; once it equals MAX_DELETE no delete call is issued and
\* no dry-run line printed, and the run returns when the next deletion falls
\* due; until then the scan goes on and may fetch further pages.
C15_CapStopsDeletes ==
    ~tool =>
        /\ deleted <= max_delete
        /\ deleted = SuccessesBefore(Len(dlog) + 1)
        /\ \A i \in 1..Len(dlog) : IsDeletion(dlog[i]) => SuccessesBefore(i) < max_delete
        /\ dpc = "stopped" => deleted = max_delete

\* C15 witness: the cap was reached by a reply and its parent, a further
\* page was fetched, and the run returned at the next message of the bot
C15_Witness ==
    /\ ~tool
    /\ dpc = "stopped"
    /\ deleted = max_delete
    /\ Len(Deletions) >= 2
    /\ Deletions[1].ts # ParentTs(1)
    /\ ~IsDeletion(dlog[Len(dlog)])

\* DRY_RUN is unset, a word for true, or no recognised word
DryRunInEffect ==
    dry_raw \in {None, Str(<<" ", "O", "n">>), Str(<<"m", "a", "y", "b", "e">>)}

\* C16: in the workflow utility, with DRY_RUN true (or unset, or not a
\* recognised word) no chat.delete call is issued; each deletion that falls
\* due is printed and counted as successful; and a run that reaches the
\* summary has scanned every message of every history page and opened the
\* thread of each of the bot's messages that has replies. (The count runs
\* against MAX_DELETE as in C15: a run that returns early has reached it.)
C16_DryRunDeletesNothing ==
    (~tool /\ DryRunInEffect /\ dpc # "idle") =>
        /\ dry_run
        /\ Kind("chat.delete") = <<>>
        /\ deleted = Len(Kind("dry"))
        /\ IsPrefix(DeletionTs, ExpectedDeletes(chan, bot_id, 1))
        /\ dpc = "stopped" => deleted = max_delete
        /\ dpc = "summary" =>
              /\ scanned = Len(chan)
              /\ DeletionTs = ExpectedDeletes(chan, bot_id, 1)
              /\ \A k \in 1..Len(chan) :
                    (ByBot(chan[k].author, bot_id) /\ chan[k].thread # <<>>) =>
                        \E i \in 1..Len(dlog) :
                            /\ dlog[i].kind = "conversations.replies"
                            /\ dlog[i].ts = ParentTs(k)
                            /\ dlog[i].next = 0

\* C16 witness: with DRY_RUN unset, a run over two pages reached the summary
\* with three would-be deletions counted, a reply among them
C16_Witness ==
    /\ ~tool /\ dry_raw = None
    /\ dpc = "summary"
    /\ Len(Kind("conversations.history")) = 2
    /\ Kind("conversations.replies") # <<>>
    /\ deleted = 3

====
